---------------------------- MODULE Spec2Model ----------------------------
(***************************************************************************)
(* The two training scripts of the repository as state machines:           *)
(*   keras-predictor.py                    (script = "diabetes")           *)
(*   cardiotocographic-classification.py   (script = "cardio")             *)
(* One action per statement group of each script.  The neural network is   *)
(* owned by the library: what fit() learns and what the network answers    *)
(* are choices over small sets of output values.  Real numbers are exact   *)
(* rationals <<n, d>> with d > 0, in lowest terms.                         *)
(***************************************************************************)
EXTENDS Integers, Sequences, FiniteSets, TLC

VARIABLES script, pc, failedAt, files, steps, out, written,
          data, training_set, test_set, X_train, y_train, X_test, y_test,
          scaler, encoder, to_predict, model, hist, score, predictions, idx

vars == <<script, pc, failedAt, files, steps, out, written,
          data, training_set, test_set, X_train, y_train, X_test, y_test,
          scaler, encoder, to_predict, model, hist, score, predictions, idx>>

-----------------------------------------------------------------------------
(* Bounds of the model *)

\* rows of the CTG sheet after dropna()
NumRows == 11
\* rows of diabetes.csv
NumDiabetesRows == 5
\* most rows of a minority NSP class (2 or 3) in the CTG sheet
MaxMinority == 2
\* rows of predicted.csv
NumPredict == 2
\* feature columns of a table (21 in CTG.xls, 8 in diabetes.csv)
NumFeatures == 2
\* raw feature values are 0 .. FeatMod - 1
FeatMod == 4

-----------------------------------------------------------------------------
(* Program constants *)

\* test_size = .2 = 1 - DIVIDE_RATIO, as the fraction 1 / TestDen
TestDen == 5
\* epochs=5, the default of train_evaluate_save_model
epochs == 5

labels == <<"Normal patient", "Suspect patient", "Pathologic patient">>

None == "None"

-----------------------------------------------------------------------------
(* Numbers *)

RECURSIVE GCD(_, _)
GCD(a, b) == IF b = 0 THEN a ELSE GCD(b, a % b)

Abs(a) == IF a < 0 THEN -a ELSE a

\* the rational p / q (q > 0) in lowest terms
Rat(p, q) == LET g == GCD(Abs(p), q) IN <<p \div g, q \div g>>

Pow2(n) == 2 ^ n

\* a / b (a >= 0, b > 0) rounded to the nearest integer, ties to even
RoundHalfEven(a, b) ==
    LET fl == a \div b
        r2 == 2 * (a % b)
    IN  IF r2 < b THEN fl
        ELSE IF r2 > b THEN fl + 1
        ELSE IF fl % 2 = 0 THEN fl ELSE fl + 1

\* the k in 0 .. 24 with 2^(k-14) <= p/q < 2^(k-13): the binade of p/q > 0
\* within the normal range of float16 below 2048
Binade(p, q) ==
    CHOOSE k \in 0..24 :
        /\ Pow2(k) * q <= p * Pow2(14)
        /\ p * Pow2(14) < Pow2(k + 1) * q

\* .astype(dtype='float16'): the rational v rounded to an 11-bit significand.
\* The scaled values are quotients by a range below 2^11 and never lie halfway
\* between two float16 values unless they are one, so rounding the exact
\* quotient gives what rounding its float64 value gives.
Float16(v) ==
    IF v[1] = 0 THEN <<0, 1>>
    ELSE LET p == Abs(v[1])
             q == v[2]
             k == Binade(p, q)
             \* one unit in the last place is 2^(k-14-10) = 1 / 2^(24-k)
             m == RoundHalfEven(p * Pow2(24 - k), q)
             s == IF v[1] < 0 THEN -1 ELSE 1
         IN  Rat(s * m, Pow2(24 - k))

-----------------------------------------------------------------------------
(* Tables: a table is a sequence of rows, a row a sequence of column values, *)
(* the last column being the label (NSP, Outcome).                           *)

\* iloc[:, :-1]
Features(table) == [i \in 1..Len(table) |-> SubSeq(table[i], 1, Len(table[i]) - 1)]
\* iloc[:, -1]
LastColumn(table) == [i \in 1..Len(table) |-> table[i][Len(table[i])]]

\* the sequence of the elements of S in increasing order
RECURSIVE SortedSeq(_)
SortedSeq(S) ==
    IF S = {} THEN <<>>
    ELSE LET m == CHOOSE x \in S : \A y \in S : x <= y
         IN  <<m>> \o SortedSeq(S \ {m})

\* rows of table at the indices of I, in index order
Take(table, I) == LET ix == SortedSeq(I) IN [i \in 1..Len(ix) |-> table[ix[i]]]

\* n_test = ceil(test_size * n_samples), n_train = n_samples - n_test.
\* test_size is .2 in the cardiotocographic script and 1 - DIVIDE_RATIO
\* (just below .2 in float64) in the diabetes script; for the row counts of
\* this model both products round up to ceil(n / 5).
NTest(n) == (n + TestDen - 1) \div TestDen

\* train_test_split(table, test_size=.2): every choice of the test rows.
\* A split is kept up to the order of the rows inside each part.
Splits(table) ==
    { <<Take(table, (1..Len(table)) \ T), Take(table, T)>> :
        T \in { S \in SUBSET (1..Len(table)) : Cardinality(S) = NTest(Len(table)) } }

-----------------------------------------------------------------------------
(* MinMaxScaler *)

ColMin(X, j) == CHOOSE m \in {X[i][j] : i \in 1..Len(X)} : \A i \in 1..Len(X) : m <= X[i][j]
ColMax(X, j) == CHOOSE m \in {X[i][j] : i \in 1..Len(X)} : \A i \in 1..Len(X) : m >= X[i][j]

NewScaler == [fits |-> 0, data_min |-> <<>>, data_max |-> <<>>]

\* scaler.fit(X): per-column minimum and maximum of X
ScalerFit(s, X) ==
    [fits     |-> s.fits + 1,
     data_min |-> [j \in 1..Len(X[1]) |-> ColMin(X, j)],
     data_max |-> [j \in 1..Len(X[1]) |-> ColMax(X, j)]]

\* data_range with zeros replaced by 1 (sklearn's _handle_zeros_in_scale)
ScaleRange(s, j) ==
    IF s.data_max[j] = s.data_min[j] THEN 1 ELSE s.data_max[j] - s.data_min[j]

\* scaler.transform(X): (x - data_min) / data_range per column
ScalerTransform(s, X) ==
    [i \in 1..Len(X) |->
        [j \in 1..Len(X[i]) |-> Rat(X[i][j] - s.data_min[j], ScaleRange(s, j))]]

\* ndarray.astype(dtype='float16')
AsFloat16(X) == [i \in 1..Len(X) |-> [j \in 1..Len(X[i]) |-> Float16(X[i][j])]]

-----------------------------------------------------------------------------
(* OneHotEncoder *)

\* encoder.fit(y): the sorted distinct values of y
EncoderFit(y) == SortedSeq({y[i] : i \in 1..Len(y)})

\* encoder.transform(y): one column per category, 1 in the column of the value
EncoderTransform(cats, y) ==
    [i \in 1..Len(y) |-> [c \in 1..Len(cats) |-> IF cats[c] = y[i] THEN 1 ELSE 0]]

\* np.argmax taking the last position of the maximum
ArgMax_Last(v) ==
    CHOOSE i \in 1..Len(v) :
        /\ \A j \in 1..Len(v) : v[j] <= v[i]
        /\ \A j \in (i + 1)..Len(v) : v[j] < v[i]

\* np.argmax(v): the first position of the maximum (position 1 is index 0)
ArgMax(v) ==
    CHOOSE i \in 1..Len(v) :
        /\ \A j \in 1..Len(v) : v[j] <= v[i]
        /\ \A j \in 1..(i - 1) : v[j] < v[i]

-----------------------------------------------------------------------------
(* Input files *)

FileStatus == {"ok", "missing", "malformed"}

\* A CTG sheet: NumRows rows, NSP 1 (normal) first, then c2 rows of NSP 2 and
\* c3 rows of NSP 3; every class is present.  Feature j of row i is (i*j) % FeatMod.
CTGRow(i, c2, c3) ==
    [j \in 1..(NumFeatures + 1) |->
        IF j <= NumFeatures THEN (i * j) % FeatMod
        ELSE IF i <= NumRows - c2 - c3 THEN 1
        ELSE IF i <= NumRows - c3 THEN 2 ELSE 3]

CTGSheets ==
    { [i \in 1..NumRows |-> CTGRow(i, c2, c3)] : c2 \in 1..MaxMinority, c3 \in 1..MaxMinority }

\* a sheet without the NSP column
MalformedSheets == { Features(t) : t \in CTGSheets }

\* diabetes.csv: NumDiabetesRows rows, Outcome 1 for the first c rows, 0 for the rest
DiabetesTables ==
    { [i \in 1..NumDiabetesRows |->
         [j \in 1..(NumFeatures + 1) |->
             IF j <= NumFeatures THEN (i * j) % FeatMod
             ELSE IF i <= c THEN 1 ELSE 0]] : c \in 0..NumDiabetesRows }

\* predicted.csv: NumPredict rows of `cols` features, values 0 .. FeatMod
\* (FeatMod lies outside the range of the training data)
ToPredictTables(cols) ==
    { [i \in 1..NumPredict |-> [j \in 1..cols |-> (i + j + s) % (FeatMod + 1)]] : s \in 0..1 }

-----------------------------------------------------------------------------
(* The network, as far as the scripts see it *)

\* outputs of the softmax layer, in halves: they sum to 1, and two of them tie
SoftmaxOutputs == { <<1, 1, 0>>, <<0, 1, 1>>, <<0, 0, 2>> }

\* outputs of the sigmoid unit, in tenths
SigmoidOutputs == { 4, 5, 6 }
\* the value .5 in tenths
Half == 5

\* the hits summed, not averaged over the rows
Accuracy_Sum(hits, rows) == <<hits, 1>>

\* metrics=['categorical_accuracy'] / ['binary_accuracy'] : hits over rows
Accuracy(hits, rows) == <<hits, rows>>

\* rows whose predicted class (argmax of the output) is the class of the label
CategoricalHits(outs, y) ==
    Cardinality({ i \in 1..Len(y) : ArgMax(outs[i]) = ArgMax(y[i]) })

\* rows whose thresholded output (output > .5) is the label
BinaryHits(outs, y) ==
    Cardinality({ i \in 1..Len(y) : (IF outs[i] > Half THEN 1 ELSE 0) = y[i] })

\* Sequential + Dense(..., num_categories) + compile
NewModel(input_dim, units, metric) ==
    [input_dim |-> input_dim, units |-> units, metric |-> metric, trained |-> FALSE]

\* History of fit(..., validation_split=.2): the metrics recorded per epoch
History(m) ==
    [epoch |-> epochs, history |-> {"loss", m.metric, "val_loss", "val_" \o m.metric}]

-----------------------------------------------------------------------------
(* Initial state: a script is started in a directory with some input files *)

Init ==
    /\ script \in {"diabetes", "cardio"}
    /\ pc = IF script = "cardio" THEN "c_load" ELSE "d_load"
    /\ failedAt = None
    /\ files \in [{"dataset", "predicted"} -> FileStatus]
    /\ steps = <<>>
    /\ out = <<>>
    /\ written = <<>>
    /\ data = None
    /\ training_set = None
    /\ test_set = None
    /\ X_train = None
    /\ y_train = None
    /\ X_test = None
    /\ y_test = None
    /\ scaler = None
    /\ encoder = None
    /\ to_predict = None
    /\ model = None
    /\ hist = None
    /\ score = None
    /\ predictions = None
    /\ idx = 0

\* groups of variables
ctl == <<pc, failedAt, steps>>
io == <<out, written>>
frames == <<data, training_set, test_set>>
arrays == <<X_train, y_train, X_test, y_test>>
prep == <<scaler, encoder, to_predict>>
net == <<model, hist, score, predictions>>

\* the exception is caught and the statement tried again
Raise_Retry(step) ==
    /\ failedAt' = step
    /\ UNCHANGED <<script, pc, files, steps, io, frames, arrays, prep, net, idx>>

\* an uncaught exception in `step`: the interpreter exits
Raise(step) ==
    /\ pc' = "error"
    /\ failedAt' = step
    /\ UNCHANGED <<script, files, steps, io, frames, arrays, prep, net, idx>>

\* `step` has finished; `next` is the statement that follows it
Goto(step, next) ==
    /\ pc' = next
    /\ steps' = Append(steps, step)
    /\ UNCHANGED failedAt

-----------------------------------------------------------------------------
(* cardiotocographic-classification.py *)

\* CTG_data = pd.read_excel('CTG.xls', ...).dropna()
C_Load ==
    /\ script = "cardio" /\ pc = "c_load"
    /\ \/ /\ files.dataset = "missing"
          /\ Raise("c_load")
       \/ /\ files.dataset # "missing"
          /\ data' \in (IF files.dataset = "ok" THEN CTGSheets ELSE MalformedSheets)
          /\ Goto("c_load", "c_select")
          /\ UNCHANGED <<script, files, io, training_set, test_set, arrays, prep, net, idx>>

\* CTG_data = CTG_data.loc[:, [..., 'NSP']]: KeyError when a column is missing
C_Select ==
    /\ script = "cardio" /\ pc = "c_select"
    /\ \/ /\ \E i \in 1..Len(data) : Len(data[i]) # NumFeatures + 1
          /\ Raise("c_select")
       \/ /\ \A i \in 1..Len(data) : Len(data[i]) = NumFeatures + 1
          /\ Goto("c_select", "c_split")
          /\ UNCHANGED <<script, files, io, frames, arrays, prep, net, idx>>

\* train_test_split and the four iloc selections
C_Split ==
    /\ script = "cardio" /\ pc = "c_split"
    /\ \E sp \in Splits(data) :
          /\ training_set' = sp[1]
          /\ test_set' = sp[2]
          /\ X_train' = Features(sp[1])
          /\ y_train' = LastColumn(sp[1])
          /\ X_test' = Features(sp[2])
          /\ y_test' = LastColumn(sp[2])
    /\ Goto("c_split", "c_scale")
    /\ UNCHANGED <<script, files, io, data, prep, net, idx>>

\* fit_transform on the test features too
C_Scale_Refit ==
    /\ script = "cardio" /\ pc = "c_scale"
    /\ LET fitted == ScalerFit(NewScaler, X_train)
           refitted == ScalerFit(fitted, X_test)
       IN  /\ scaler' = refitted
           /\ X_train' = AsFloat16(ScalerTransform(fitted, X_train))
           /\ X_test' = AsFloat16(ScalerTransform(refitted, X_test))
    /\ Goto("c_scale", "c_encode")
    /\ UNCHANGED <<script, files, io, frames, y_train, y_test, encoder, to_predict, net, idx>>

\* scaler = MinMaxScaler(); fit_transform(X_train); transform(X_test)
C_Scale ==
    /\ script = "cardio" /\ pc = "c_scale"
    /\ LET fitted == ScalerFit(NewScaler, X_train)
       IN  /\ scaler' = fitted
           /\ X_train' = AsFloat16(ScalerTransform(fitted, X_train))
           /\ X_test' = AsFloat16(ScalerTransform(fitted, X_test))
    /\ Goto("c_scale", "c_encode")
    /\ UNCHANGED <<script, files, io, frames, y_train, y_test, encoder, to_predict, net, idx>>

\* encoder.fit_transform(y_train); encoder.fit_transform(y_test)
C_Encode ==
    /\ script = "cardio" /\ pc = "c_encode"
    /\ y_train' = EncoderTransform(EncoderFit(y_train), y_train)
    /\ y_test' = EncoderTransform(EncoderFit(y_test), y_test)
    /\ encoder' = EncoderFit(y_test)
    /\ Goto("c_encode", "c_load_predict")
    /\ UNCHANGED <<script, files, io, frames, X_train, X_test, scaler, to_predict, net, idx>>

\* pd.read_csv('predicted.csv').to_numpy()
C_LoadToPredict ==
    /\ script = "cardio" /\ pc = "c_load_predict"
    /\ \/ /\ files.predicted = "missing"
          /\ Raise("c_load_predict")
       \/ /\ files.predicted # "missing"
          /\ to_predict' \in ToPredictTables(IF files.predicted = "ok" THEN NumFeatures
                                             ELSE NumFeatures + 1)
          /\ Goto("c_load_predict", "c_scale_predict")
          /\ UNCHANGED <<script, files, io, frames, arrays, scaler, encoder, net, idx>>

\* scaler.transform(cardiotocographic_data_to_predict): ValueError when the
\* number of columns is not the number the scaler was fitted on
C_ScaleToPredict ==
    /\ script = "cardio" /\ pc = "c_scale_predict"
    /\ \/ /\ Len(to_predict[1]) # Len(scaler.data_min)
          /\ Raise("c_scale_predict")
       \/ /\ Len(to_predict[1]) = Len(scaler.data_min)
          /\ to_predict' = ScalerTransform(scaler, to_predict)
          /\ Goto("c_scale_predict", "c_build")
          /\ UNCHANGED <<script, files, io, frames, arrays, scaler, encoder, net, idx>>

\* num_categories = len(labels); create_cardiotocographic_model(...)
C_Build ==
    /\ script = "cardio" /\ pc = "c_build"
    /\ model' = NewModel(Len(X_train[1]), Len(labels), "categorical_accuracy")
    /\ out' = Append(out, <<"summary", "cardiotocographic-predictor">>)
    /\ Goto("c_build", "c_fit")
    /\ UNCHANGED <<script, files, written, frames, arrays, prep, hist, score, predictions, idx>>

\* hist = model.fit(X_train, y_train, ...): ValueError when the label matrix
\* has not one column per output unit
C_Fit ==
    /\ script = "cardio" /\ pc = "c_fit"
    /\ \/ /\ Len(y_train[1]) # model.units
          /\ Raise("c_fit")
       \/ /\ Len(y_train[1]) = model.units
          /\ model' = [model EXCEPT !.trained = TRUE]
          /\ hist' = History(model)
          /\ Goto("c_fit", "c_evaluate")
          /\ UNCHANGED <<script, files, io, frames, arrays, prep, score, predictions, idx>>

\* loss, category_accuracy = model.evaluate(X_test, y_test, verbose=0)
C_Evaluate ==
    /\ script = "cardio" /\ pc = "c_evaluate"
    /\ \/ /\ Len(y_test[1]) # model.units
          /\ Raise("c_evaluate")
       \/ /\ Len(y_test[1]) = model.units
          /\ \E outs \in [1..Len(X_test) -> SoftmaxOutputs] :
                score' = Accuracy(CategoricalHits(outs, y_test), Len(y_test))
          /\ Goto("c_evaluate", "c_predict")
          /\ UNCHANGED <<script, files, io, frames, arrays, prep, model, hist, predictions, idx>>

\* predictions = model.predict(X_to_predict)
C_Predict ==
    /\ script = "cardio" /\ pc = "c_predict"
    /\ predictions' \in [1..Len(to_predict) -> SoftmaxOutputs]
    /\ Goto("c_predict", "c_save_model")
    /\ UNCHANGED <<script, files, io, frames, arrays, prep, model, hist, score, idx>>

\* the model saved before predict is called
C_SaveModel_BeforePredict ==
    /\ script = "cardio" /\ pc = "c_predict" /\ Len(written) = 0
    /\ written' = Append(written, [name |-> "cardiotocographic-predictor.h5", content |-> model])
    /\ Goto("c_save_model", "c_predict")
    /\ UNCHANGED <<script, files, out, frames, arrays, prep, net, idx>>

\* model.save(f'{name}.h5')
C_SaveModel ==
    /\ script = "cardio" /\ pc = "c_save_model"
    /\ written' = Append(written, [name |-> "cardiotocographic-predictor.h5", content |-> model])
    /\ Goto("c_save_model", "c_plot_loss")
    /\ UNCHANGED <<script, files, out, frames, arrays, prep, net, idx>>

\* plot_metric_graph(hist, metric, title): KeyError when the history lacks
\* the metric, else savefig(f'{title}.jpg')
PlotMetricGraph(metric, title, step, next) ==
    \/ /\ ~ ({metric, "val_" \o metric} \subseteq hist.history)
       /\ pc' = "error"
       /\ failedAt' = step
       /\ UNCHANGED <<steps, written>>
    \/ /\ {metric, "val_" \o metric} \subseteq hist.history
       /\ written' = Append(written, [name |-> title \o ".jpg", content |-> metric])
       /\ Goto(step, next)

\* the loss graph written in place of the model file, not beside it
C_PlotLoss_DropModel ==
    /\ script = "cardio" /\ pc = "c_plot_loss"
    /\ data' = None /\ test_set' = None /\ training_set' = None
    /\ written' = <<[name |-> "Epoch-Loss Graph.jpg", content |-> "loss"]>>
    /\ Goto("c_plot_loss", "c_plot_accuracy")
    /\ UNCHANGED <<script, files, out, arrays, prep, net, idx>>

\* del CTG_data, test_set, training_set; plot_metric_graph(hist, 'loss', ...)
C_PlotLoss ==
    /\ script = "cardio" /\ pc = "c_plot_loss"
    /\ data' = None /\ test_set' = None /\ training_set' = None
    /\ PlotMetricGraph("loss", "Epoch-Loss Graph", "c_plot_loss", "c_plot_accuracy")
    /\ UNCHANGED <<script, files, out, arrays, prep, net, idx>>

\* plot_metric_graph(hist, 'categorical_accuracy', ...)
C_PlotAccuracy ==
    /\ script = "cardio" /\ pc = "c_plot_accuracy"
    /\ PlotMetricGraph("categorical_accuracy", "Epoch-Categorical Accuracy Graph",
                       "c_plot_accuracy", "c_print_metrics")
    /\ UNCHANGED <<script, files, out, frames, arrays, prep, net, idx>>

\* the four print calls reporting loss and categorical_accuracy
C_PrintMetrics ==
    /\ script = "cardio" /\ pc = "c_print_metrics"
    /\ out' = Append(out, <<"accuracy", score>>)
    /\ idx' = 0
    /\ Goto("c_print_metrics", "c_print_labels")
    /\ UNCHANGED <<script, files, written, frames, arrays, prep, net>>

\* one turn of: for prediction in np.argmax(predictions, axis=1): print(labels[prediction])
C_PrintLabel ==
    /\ script = "cardio" /\ pc = "c_print_labels"
    /\ idx < Len(predictions)
    /\ out' = Append(out, <<"prediction", labels[ArgMax(predictions[idx + 1])]>>)
    /\ idx' = idx + 1
    /\ IF idx + 1 = Len(predictions)
       THEN Goto("c_print_labels", "c_pickle")
       ELSE UNCHANGED ctl
    /\ UNCHANGED <<script, files, written, frames, arrays, prep, net>>

\* the scaler is not dumped
C_Pickle_Skip ==
    /\ script = "cardio" /\ pc = "c_pickle"
    /\ Goto("c_pickle", "done")
    /\ UNCHANGED <<script, files, io, frames, arrays, prep, net, idx>>

\* with open('cardiotocographic.pickle', 'wb') as f: pickle.dump(scaler, f)
C_Pickle ==
    /\ script = "cardio" /\ pc = "c_pickle"
    /\ written' = Append(written, [name |-> "cardiotocographic.pickle", content |-> scaler])
    /\ Goto("c_pickle", "done")
    /\ UNCHANGED <<script, files, out, frames, arrays, prep, net, idx>>

Cardio ==
    \/ C_Load \/ C_Select \/ C_Split \/ C_Scale \/ C_Encode
    \/ C_LoadToPredict \/ C_ScaleToPredict \/ C_Build \/ C_Fit \/ C_Evaluate
    \/ C_Predict \/ C_SaveModel \/ C_PlotLoss \/ C_PlotAccuracy
    \/ C_PrintMetrics \/ C_PrintLabel \/ C_Pickle

-----------------------------------------------------------------------------
(* keras-predictor.py *)

\* diabetes_data = pd.read_csv('.../diabetes.csv'): FileNotFoundError, ParserError
D_Load ==
    /\ script = "diabetes" /\ pc = "d_load"
    /\ \/ /\ files.dataset # "ok"
          /\ Raise("d_load")
       \/ /\ files.dataset = "ok"
          /\ data' \in DiabetesTables
          /\ Goto("d_load", "d_split")
          /\ UNCHANGED <<script, files, io, training_set, test_set, arrays, prep, net, idx>>

\* train_test_split(diabetes_data, test_size=1-DIVIDE_RATIO) and the iloc selections
D_Split ==
    /\ script = "diabetes" /\ pc = "d_split"
    /\ \E sp \in Splits(data) :
          /\ training_set' = sp[1]
          /\ test_set' = sp[2]
          /\ X_train' = Features(sp[1])
          /\ y_train' = LastColumn(sp[1])
          /\ X_test' = Features(sp[2])
          /\ y_test' = LastColumn(sp[2])
    /\ Goto("d_split", "d_build")
    /\ UNCHANGED <<script, files, io, data, prep, net, idx>>

\* Sequential(...), three Dense layers, model.summary(), model.compile(...)
D_Build ==
    /\ script = "diabetes" /\ pc = "d_build"
    /\ model' = NewModel(Len(X_train[1]), 1, "binary_accuracy")
    /\ out' = Append(out, <<"summary", "Pima-Indians-Diabetes-X_test">>)
    /\ Goto("d_build", "d_fit")
    /\ UNCHANGED <<script, files, written, frames, arrays, prep, hist, score, predictions, idx>>

\* model.fit(X_train, y_train, epochs=100, batch_size=32, validation_split=.2)
D_Fit ==
    /\ script = "diabetes" /\ pc = "d_fit"
    /\ model' = [model EXCEPT !.trained = TRUE]
    /\ Goto("d_fit", "d_evaluate")
    /\ UNCHANGED <<script, files, io, frames, arrays, prep, hist, score, predictions, idx>>

\* score = model.evaluate(X_test, y_test, verbose=0); score[1] is the accuracy
D_Evaluate ==
    /\ script = "diabetes" /\ pc = "d_evaluate"
    /\ \E outs \in [1..Len(X_test) -> SigmoidOutputs] :
          score' = Accuracy(BinaryHits(outs, y_test), Len(y_test))
    /\ Goto("d_evaluate", "d_print_accuracy")
    /\ UNCHANGED <<script, files, io, frames, arrays, prep, model, hist, predictions, idx>>

\* print('Test accuracy:', score[1])
D_PrintAccuracy ==
    /\ script = "diabetes" /\ pc = "d_print_accuracy"
    /\ out' = Append(out, <<"accuracy", score>>)
    /\ Goto("d_print_accuracy", "d_load_predict")
    /\ UNCHANGED <<script, files, written, frames, arrays, prep, net, idx>>

\* pd.read_csv('.../predicted.csv').to_numpy()
D_LoadToPredict ==
    /\ script = "diabetes" /\ pc = "d_load_predict"
    /\ \/ /\ files.predicted = "missing"
          /\ Raise("d_load_predict")
       \/ /\ files.predicted # "missing"
          /\ to_predict' \in ToPredictTables(IF files.predicted = "ok" THEN NumFeatures
                                             ELSE NumFeatures + 1)
          /\ Goto("d_load_predict", "d_predict")
          /\ UNCHANGED <<script, files, io, frames, arrays, scaler, encoder, net, idx>>

\* predictions = model.predict(diabetes_data_to_predict): ValueError when the
\* rows have not input_dim columns
D_Predict ==
    /\ script = "diabetes" /\ pc = "d_predict"
    /\ \/ /\ Len(to_predict[1]) # model.input_dim
          /\ Raise("d_predict")
       \/ /\ Len(to_predict[1]) = model.input_dim
          /\ predictions' \in [1..Len(to_predict) -> SigmoidOutputs]
          /\ idx' = 0
          /\ Goto("d_predict", "d_print_predictions")
          /\ UNCHANGED <<script, files, io, frames, arrays, prep, model, hist, score>>

\* the comparison with .5 not strict
Verdict_AtLeastHalf(prediction) ==
    IF prediction >= Half THEN "Person have got diabetes..." ELSE "Person is healthy..."

\* 'Person have got diabetes...' if prediction > .5 else 'Person is healthy...'
Verdict(prediction) ==
    IF prediction > Half THEN "Person have got diabetes..." ELSE "Person is healthy..."

\* one turn of: for prediction in predictions: print(...)
D_PrintPrediction ==
    /\ script = "diabetes" /\ pc = "d_print_predictions"
    /\ idx < Len(predictions)
    /\ out' = Append(out, <<"prediction", Verdict(predictions[idx + 1])>>)
    /\ idx' = idx + 1
    /\ IF idx + 1 = Len(predictions)
       THEN Goto("d_print_predictions", "done")
       ELSE UNCHANGED ctl
    /\ UNCHANGED <<script, files, written, frames, arrays, prep, net>>

Diabetes ==
    \/ D_Load \/ D_Split \/ D_Build \/ D_Fit \/ D_Evaluate \/ D_PrintAccuracy
    \/ D_LoadToPredict \/ D_Predict \/ D_PrintPrediction

Next == Cardio \/ Diabetes

Spec == Init /\ [][Next]_vars

-----------------------------------------------------------------------------
(* Vocabulary of the properties *)

\* `step` has run to completion
Done(step) == \E i \in 1..Len(steps) : steps[i] = step

\* the statements of each script in source order
StepOrder(s) ==
    IF s = "cardio"
    THEN <<"c_load", "c_select", "c_split", "c_scale", "c_encode", "c_load_predict",
           "c_scale_predict", "c_build", "c_fit", "c_evaluate", "c_predict",
           "c_save_model", "c_plot_loss", "c_plot_accuracy", "c_print_metrics",
           "c_print_labels", "c_pickle">>
    ELSE <<"d_load", "d_split", "d_build", "d_fit", "d_evaluate", "d_print_accuracy",
           "d_load_predict", "d_predict", "d_print_predictions">>

\* the pipeline step a statement belongs to: 1 load, 2 split, 3 scale/encode,
\* 4 build model, 5 fit, 6 evaluate, 7 predict, 8 report/save; 0 for reading
\* predicted.csv, which prepares the input of predict
Phase(step) ==
    CASE step \in {"c_load", "c_select", "d_load"} -> 1
      [] step \in {"c_split", "d_split"} -> 2
      [] step \in {"c_scale", "c_encode", "c_scale_predict"} -> 3
      [] step \in {"c_build", "d_build"} -> 4
      [] step \in {"c_fit", "d_fit"} -> 5
      [] step \in {"c_evaluate", "d_evaluate"} -> 6
      [] step \in {"c_predict", "d_predict"} -> 7
      [] step \in {"c_load_predict", "d_load_predict"} -> 0
      [] OTHER -> 8

\* no statement ran twice, and none ran out of turn
InSourceOrder ==
    /\ Len(steps) <= Len(StepOrder(script))
    /\ \A i \in 1..Len(steps) : steps[i] = StepOrder(script)[i]

\* the pipeline steps of the statements in `ignore` aside, no pipeline step
\* ran after a later one
PhasesInOrder(ignore) ==
    \A i, j \in 1..Len(steps) :
        (i < j /\ Phase(steps[i]) # 0 /\ Phase(steps[j]) # 0
               /\ steps[i] \notin ignore /\ steps[j] \notin ignore)
            => Phase(steps[i]) <= Phase(steps[j])

Lines(kind) == SelectSeq(out, LAMBDA e : e[1] = kind)
Reported == Len(Lines("accuracy")) + Len(Lines("prediction")) + Len(written) > 0
Predicted == Done("c_predict") \/ Done("d_predict")

FileNames == { written[i].name : i \in 1..Len(written) }

\* the raw frames of the split are still there (before del, line 144)
HasFrames == Done("c_split") /\ ~ Done("c_plot_loss") /\ failedAt # "c_plot_loss"

-----------------------------------------------------------------------------
\* C1 as stated: in both scripts the pipeline steps run in the order load,
\* split, scale/encode, build, fit, evaluate, predict, report/save, each
\* statement at most once, and nothing is reported or saved before predict
\* has finished.
C1_ReportOnlyAfterPredict ==
    /\ InSourceOrder
    /\ PhasesInOrder({})
    /\ Reported => Predicted

\* C1 amended: every statement runs at most once and in source order; the
\* cardiotocographic script reports and saves only after predict; the
\* diabetes script prints the accuracy right after evaluate, before
\* predicted.csv is read and predict runs, and the prediction lines after it.
C1_SourceOrder ==
    /\ InSourceOrder
    /\ script = "cardio" => (PhasesInOrder({}) /\ (Reported => Predicted))
    /\ script = "diabetes" =>
          /\ PhasesInOrder({"d_print_accuracy"})
          /\ Len(written) = 0
          /\ Len(Lines("accuracy")) > 0 <=> Done("d_print_accuracy")
          /\ Done("d_print_accuracy") => Done("d_evaluate")
          /\ Done("d_load_predict") => Done("d_print_accuracy")
          /\ Len(Lines("prediction")) > 0 => Done("d_predict")

C1_Witness ==
    /\ script = "diabetes" /\ pc = "d_load_predict"
    /\ Len(Lines("accuracy")) = 1 /\ ~ Predicted

-----------------------------------------------------------------------------
\* the run is over as the failure of `failedAt` leaves it
FailedRun ==
    /\ failedAt # None <=> pc = "error"
    /\ pc = "error" =>
          /\ ~ Done(failedAt)
          /\ Len(steps) < Len(StepOrder(script))
          /\ StepOrder(script)[Len(steps) + 1] = failedAt
    /\ files.dataset = "missing" => (steps = <<>> /\ out = <<>> /\ written = <<>>)
    /\ files.predicted = "missing" =>
          /\ ~ Done("c_load_predict") /\ ~ Done("d_load_predict")
          /\ ~ Predicted /\ written = <<>> /\ Len(Lines("prediction")) = 0

\* C2: a failing step ends the run in an error state at that step: no later
\* step runs, the step is not retried, and nothing is printed or written
\* after the failure.
C2_FailureEndsRun == [] FailedRun /\ [][pc # "error"]_vars

C2_Witness ==
    /\ pc = "error" /\ failedAt = "d_load_predict"
    /\ files.predicted = "missing" /\ Len(Lines("accuracy")) = 1

-----------------------------------------------------------------------------
\* C3: with both input files present and well-formed, no run ends in an
\* error state, whatever split train_test_split chooses.
C3_NoErrorOnGoodInput ==
    (files.dataset = "ok" /\ files.predicted = "ok") => pc # "error"

-----------------------------------------------------------------------------
\* C4: the accuracy a run computes and prints is correct / total with
\* 0 <= correct <= total and total > 0, so it lies in [0,1].
C4_AccuracyInUnitInterval ==
    /\ (Done("c_evaluate") \/ Done("d_evaluate")) =>
          /\ 0 <= score[1] /\ score[1] <= score[2] /\ score[2] > 0
          /\ score[2] = Len(y_test)
    /\ \A i \in 1..Len(Lines("accuracy")) :
          LET a == Lines("accuracy")[i][2]
          IN  a = score /\ 0 <= a[1] /\ a[1] <= a[2] /\ a[2] > 0

C4_Witness ==
    /\ script = "cardio" /\ pc = "done"
    /\ Len(Lines("accuracy")) = 1 /\ score[1] = 2 /\ score[2] >= 3

-----------------------------------------------------------------------------
AllOutputs ==
    /\ Len(Lines("accuracy")) = 1
    /\ Len(Lines("prediction")) = Len(predictions)
    /\ FileNames = {"cardiotocographic-predictor.h5", "Epoch-Loss Graph.jpg",
                    "Epoch-Categorical Accuracy Graph.jpg", "cardiotocographic.pickle"}

\* C5 as stated: a completed run of either script has printed the accuracy
\* and the predictions and written the plots, the model file and the scaler.
C5_AllOutputsInBothScripts == pc = "done" => AllOutputs

\* C5 amended: a completed run of the cardiotocographic script has produced
\* all of these outputs; a completed run of the diabetes script has printed
\* the accuracy and one line per row to predict, and has written no file.
C5_OutputsPerScript ==
    pc = "done" =>
        IF script = "cardio" THEN AllOutputs
        ELSE /\ Len(Lines("accuracy")) = 1
             /\ Len(Lines("prediction")) = Len(predictions)
             /\ written = <<>>

C5_Witness == script = "cardio" /\ pc = "done" /\ Len(written) = 4

-----------------------------------------------------------------------------
\* C6: the one-hot matrices of the training and the test labels have the
\* same columns: one set bit per row, the same width, and the same column
\* for the same NSP value.
C6_SameColumnsInTrainAndTest ==
    (Done("c_encode") /\ HasFrames) =>
        /\ \A i \in 1..Len(y_train) :
              Cardinality({c \in 1..Len(y_train[i]) : y_train[i][c] = 1}) = 1
        /\ \A i \in 1..Len(y_test) :
              Cardinality({c \in 1..Len(y_test[i]) : y_test[i][c] = 1}) = 1
        /\ Len(y_train[1]) = Len(y_test[1])
        /\ \A i \in 1..Len(y_train), j \in 1..Len(y_test) :
              LastColumn(training_set)[i] = LastColumn(test_set)[j]
                  => y_train[i] = y_test[j]

-----------------------------------------------------------------------------
\* the name of an NSP class
NSPName(nsp) ==
    CASE nsp = 1 -> "Normal patient"
      [] nsp = 2 -> "Suspect patient"
      [] nsp = 3 -> "Pathologic patient"

\* v has its first maximum at position i
FirstMaxAt(v, i) ==
    /\ \A j \in 1..Len(v) : v[j] <= v[i]
    /\ \A j \in 1..Len(v) : v[j] = v[i] => i <= j

\* columns of the training one-hot matrix stand for NSP 1, 2, 3 in this order
TrainColumnsAreNSP ==
    \A i \in 1..Len(y_train) :
        /\ Len(y_train[i]) = 3
        /\ \A c \in 1..3 : y_train[i][c] = 1 <=> LastColumn(training_set)[i] = c

PrintedLabels ==
    /\ Len(Lines("prediction")) = idx
    /\ Done("c_print_labels") => idx = Len(to_predict)
    /\ \A k \in 1..Len(Lines("prediction")) :
          \E c \in 1..3 :
              /\ FirstMaxAt(predictions[k], c)
              /\ Lines("prediction")[k][2] = NSPName(c)

-----------------------------------------------------------------------------
\* C8: one line is printed per row to predict, in row order: the diabetes
\* line exactly when the output is above .5, the healthy line otherwise
\* (also at .5 itself).
C8_DiabetesIffAboveHalf ==
    (script = "diabetes" /\ Done("d_predict")) =>
        /\ Len(Lines("prediction")) = idx
        /\ pc = "done" => idx = Len(to_predict)
        /\ \A k \in 1..Len(Lines("prediction")) :
              /\ Lines("prediction")[k][2] = "Person have got diabetes..."
                    <=> predictions[k] > Half
              /\ Lines("prediction")[k][2] = "Person is healthy..."
                    <=> predictions[k] <= Half

C8_Witness ==
    /\ script = "diabetes" /\ pc = "done"
    /\ predictions[1] = Half /\ Lines("prediction")[1][2] = "Person is healthy..."
    /\ predictions[2] > Half /\ Lines("prediction")[2][2] = "Person have got diabetes..."

-----------------------------------------------------------------------------
\* m is the least (greatest) value of feature j over the training rows
IsTrainMin(m, j) ==
    /\ \E i \in 1..Len(training_set) : training_set[i][j] = m
    /\ \A i \in 1..Len(training_set) : training_set[i][j] >= m
IsTrainMax(m, j) ==
    /\ \E i \in 1..Len(training_set) : training_set[i][j] = m
    /\ \A i \in 1..Len(training_set) : training_set[i][j] <= m

\* the rational r is (x - min) / (max - min), or x - min when max = min
IsScaled(r, x, j) ==
    LET range == IF scaler.data_max[j] = scaler.data_min[j] THEN 1
                 ELSE scaler.data_max[j] - scaler.data_min[j]
    IN  r[1] * range = (x - scaler.data_min[j]) * r[2]

\* the exact value of feature x of column j as the scaler of state `sc` scales it
ScaledBy(sc, x, j) ==
    Rat(x - sc.data_min[j],
        IF sc.data_max[j] = sc.data_min[j] THEN 1 ELSE sc.data_max[j] - sc.data_min[j])

ScalerIsOfTrainingSet ==
    /\ scaler.fits = 1
    /\ HasFrames =>
          \A j \in 1..NumFeatures :
              IsTrainMin(scaler.data_min[j], j) /\ IsTrainMax(scaler.data_max[j], j)
    /\ \A i \in 1..Len(written) :
          written[i].name = "cardiotocographic.pickle" => written[i].content = scaler

\* C9: the scaler is fitted once, on the training features, and never again:
\* the test features and the features to predict are scaled with the minimum
\* and maximum of the training set, and the pickled scaler holds these.
C9_ScalerFittedOnceOnTraining ==
    /\ [] ((script = "cardio" /\ Done("c_scale")) => ScalerIsOfTrainingSet)
    /\ [][Done("c_scale") => (scaler' = scaler /\ X_test' = X_test)]_vars
    /\ [][(pc = "c_scale" /\ pc' = "c_encode") =>
            \A i \in 1..Len(test_set), j \in 1..NumFeatures :
                /\ IsTrainMin(scaler'.data_min[j], j)
                /\ IsTrainMax(scaler'.data_max[j], j)
                /\ X_test'[i][j] = Float16(ScaledBy(scaler', test_set[i][j], j))]_vars
    /\ [][(pc = "c_scale_predict" /\ pc' = "c_build") =>
            \A i \in 1..Len(to_predict), j \in 1..NumFeatures :
                /\ IsTrainMin(scaler.data_min[j], j)
                /\ IsTrainMax(scaler.data_max[j], j)
                /\ IsScaled(to_predict'[i][j], to_predict[i][j], j)]_vars

C9_Witness ==
    /\ script = "cardio" /\ pc = "done"
    /\ \E j \in 1..NumFeatures : scaler.data_min[j] > 0
    /\ \E i \in 1..Len(X_test), j \in 1..NumFeatures : X_test[i][j][1] < 0
    /\ \E i \in 1..Len(to_predict), j \in 1..NumFeatures : to_predict[i][j][1] > to_predict[i][j][2]

-----------------------------------------------------------------------------
\* C10: in every state the files written are nested: the pickle only with
\* the accuracy plot, that only with the loss plot, that only with the model
\* file.
C10_OutputFilesNested ==
    /\ "cardiotocographic.pickle" \in FileNames
          => "Epoch-Categorical Accuracy Graph.jpg" \in FileNames
    /\ "Epoch-Categorical Accuracy Graph.jpg" \in FileNames
          => "Epoch-Loss Graph.jpg" \in FileNames
    /\ "Epoch-Loss Graph.jpg" \in FileNames
          => "cardiotocographic-predictor.h5" \in FileNames

C10_Witness ==
    /\ script = "cardio" /\ pc = "c_pickle"
    /\ "cardiotocographic-predictor.h5" \in FileNames
    /\ "cardiotocographic.pickle" \notin FileNames

=============================================================================
